---- MODULE Spec2Model ----
(***************************************************************************)
(* Skew polynomials over a finite field k with twist sigma (a power of the *)
(* Frobenius endomorphism): S = k[X,sigma], X * a = sigma(a) * X.          *)
(* Model of sage/rings/polynomial/skew_polynomial_finite_field.pyx.        *)
(*                                                                         *)
(* A polynomial object is a record [coeffs, conjugates]; both fields hold  *)
(* references (indices into heap) to Python list objects, so that the      *)
(* aliasing  _conjugates = [ _coeffs ]  and the in-place list mutations of *)
(* the source are kept.  Source index a[i] is a[i+1] here.                 *)
(***************************************************************************)
EXTENDS Integers, Sequences, FiniteSets, TLC

VARIABLES parent, heap, polys, self, other, exp, call, ret, res, A, B, pc, passes

vars == <<parent, heap, polys, self, other, exp, call, ret, res, A, B, pc, passes>>

-----------------------------------------------------------------------------
(* Bounds of the model.                                                    *)

\* longest dividend / divisor coefficient list in the division runs (GF(4))
MaxLenA == 4
MaxLenB == 3

\* longest coefficient lists of self and other in the gcd runs
GcdLenA == 5
GcdLenB == 4

\* longest coefficient list of self and other, and largest exponent, in the runs
\* with all the routines
MaxLen == 3
MaxExp == 6

-----------------------------------------------------------------------------
(* The base field k = GF(p^n) = GF(p)[t]/(t^n - tn): an element is the     *)
(* integer whose base-p digits are its coordinates on 1, t, .., t^(n-1).   *)

Rings == {"GF4", "GF8", "GF9"}

RingDef ==
  [GF4 |-> [p |-> 2, n |-> 2, tn |-> 3],    \* t^2 = t + 1
   GF8 |-> [p |-> 2, n |-> 3, tn |-> 3],    \* t^3 = t + 1
   GF9 |-> [p |-> 3, n |-> 2, tn |-> 2]]    \* t^2 = -1

RECURSIVE IPow(_, _)
IPow(b, e) == IF e = 0 THEN 1 ELSE b * IPow(b, e - 1)

Card(R) == IPow(R.p, R.n)

RECURSIVE DigitSum(_, _, _, _)
\* the element whose i-th digit is (u * x_i + v * y_i) mod p, over digits i < n
DigitSum(R, ux, vy, i) ==
  IF i = R.n THEN 0
  ELSE LET w == IPow(R.p, i)
           d == (ux[1] * ((ux[2] \div w) % R.p) + vy[1] * ((vy[2] \div w) % R.p)) % R.p
       IN  d * w + DigitSum(R, ux, vy, i + 1)

RawAdd(R, x, y) == DigitSum(R, <<1, x>>, <<1, y>>, 0)
RawSub(R, x, y) == DigitSum(R, <<1, x>>, <<R.p - 1, y>>, 0)

\* x * t: shift the digits up and replace t^n by tn
RawMulT(R, x) ==
  LET top == IPow(R.p, R.n - 1)
  IN  DigitSum(R, <<1, (x % top) * R.p>>, <<x \div top, R.tn>>, 0)

RECURSIVE RawMul(_, _, _, _)
\* x * y = sum over i of y_i * (x * t^i)
RawMul(R, x, y, i) ==
  IF i = R.n THEN 0
  ELSE DigitSum(R, <<(y \div IPow(R.p, i)) % R.p, x>>,
                   <<1, RawMulT(R, RawMul(R, x, y, i + 1))>>, 0)

RECURSIVE RawPow(_, _, _)
RawPow(R, x, e) == IF e = 0 THEN 1 ELSE RawMul(R, x, RawPow(R, x, e - 1), 0)

RECURSIVE Row(_, _, _, _, _)
\* the tuple << F(R, x, 0), .., F(R, x, q-1) >> from position y on
Row(F(_, _, _), R, x, y, q) ==
  IF y = q THEN << >> ELSE << F(R, x, y) >> \o Row(F, R, x, y + 1, q)

RECURSIVE Table(_, _, _, _)
Table(F(_, _, _), R, x, q) ==
  IF x = q THEN << >> ELSE << Row(F, R, x, 0, q) >> \o Table(F, R, x + 1, q)

RawMul0(R, x, y) == RawMul(R, x, y, 0)
RawFrob(R, x, y) == RawPow(R, y, R.p)
RawInv(R, x, y) == IF y = 0 THEN 0 ELSE RawPow(R, y, Card(R) - 2)

\* the tables of x + y, x - y, x * y (rows x, columns y), ~x and x^p, as
\* RawAdd, RawSub, RawMul0, RawInv and RawFrob give them
AddTab ==
  [GF4 |-> << <<0, 1, 2, 3>>,
            <<1, 0, 3, 2>>,
            <<2, 3, 0, 1>>,
            <<3, 2, 1, 0>> >>,
   GF8 |-> << <<0, 1, 2, 3, 4, 5, 6, 7>>,
            <<1, 0, 3, 2, 5, 4, 7, 6>>,
            <<2, 3, 0, 1, 6, 7, 4, 5>>,
            <<3, 2, 1, 0, 7, 6, 5, 4>>,
            <<4, 5, 6, 7, 0, 1, 2, 3>>,
            <<5, 4, 7, 6, 1, 0, 3, 2>>,
            <<6, 7, 4, 5, 2, 3, 0, 1>>,
            <<7, 6, 5, 4, 3, 2, 1, 0>> >>,
   GF9 |-> << <<0, 1, 2, 3, 4, 5, 6, 7, 8>>,
            <<1, 2, 0, 4, 5, 3, 7, 8, 6>>,
            <<2, 0, 1, 5, 3, 4, 8, 6, 7>>,
            <<3, 4, 5, 6, 7, 8, 0, 1, 2>>,
            <<4, 5, 3, 7, 8, 6, 1, 2, 0>>,
            <<5, 3, 4, 8, 6, 7, 2, 0, 1>>,
            <<6, 7, 8, 0, 1, 2, 3, 4, 5>>,
            <<7, 8, 6, 1, 2, 0, 4, 5, 3>>,
            <<8, 6, 7, 2, 0, 1, 5, 3, 4>> >>]

SubTab ==
  [GF4 |-> << <<0, 1, 2, 3>>,
            <<1, 0, 3, 2>>,
            <<2, 3, 0, 1>>,
            <<3, 2, 1, 0>> >>,
   GF8 |-> << <<0, 1, 2, 3, 4, 5, 6, 7>>,
            <<1, 0, 3, 2, 5, 4, 7, 6>>,
            <<2, 3, 0, 1, 6, 7, 4, 5>>,
            <<3, 2, 1, 0, 7, 6, 5, 4>>,
            <<4, 5, 6, 7, 0, 1, 2, 3>>,
            <<5, 4, 7, 6, 1, 0, 3, 2>>,
            <<6, 7, 4, 5, 2, 3, 0, 1>>,
            <<7, 6, 5, 4, 3, 2, 1, 0>> >>,
   GF9 |-> << <<0, 2, 1, 6, 8, 7, 3, 5, 4>>,
            <<1, 0, 2, 7, 6, 8, 4, 3, 5>>,
            <<2, 1, 0, 8, 7, 6, 5, 4, 3>>,
            <<3, 5, 4, 0, 2, 1, 6, 8, 7>>,
            <<4, 3, 5, 1, 0, 2, 7, 6, 8>>,
            <<5, 4, 3, 2, 1, 0, 8, 7, 6>>,
            <<6, 8, 7, 3, 5, 4, 0, 2, 1>>,
            <<7, 6, 8, 4, 3, 5, 1, 0, 2>>,
            <<8, 7, 6, 5, 4, 3, 2, 1, 0>> >>]

MulTab ==
  [GF4 |-> << <<0, 0, 0, 0>>,
            <<0, 1, 2, 3>>,
            <<0, 2, 3, 1>>,
            <<0, 3, 1, 2>> >>,
   GF8 |-> << <<0, 0, 0, 0, 0, 0, 0, 0>>,
            <<0, 1, 2, 3, 4, 5, 6, 7>>,
            <<0, 2, 4, 6, 3, 1, 7, 5>>,
            <<0, 3, 6, 5, 7, 4, 1, 2>>,
            <<0, 4, 3, 7, 6, 2, 5, 1>>,
            <<0, 5, 1, 4, 2, 7, 3, 6>>,
            <<0, 6, 7, 1, 5, 3, 2, 4>>,
            <<0, 7, 5, 2, 1, 6, 4, 3>> >>,
   GF9 |-> << <<0, 0, 0, 0, 0, 0, 0, 0, 0>>,
            <<0, 1, 2, 3, 4, 5, 6, 7, 8>>,
            <<0, 2, 1, 6, 8, 7, 3, 5, 4>>,
            <<0, 3, 6, 2, 5, 8, 1, 4, 7>>,
            <<0, 4, 8, 5, 6, 1, 7, 2, 3>>,
            <<0, 5, 7, 8, 1, 3, 4, 6, 2>>,
            <<0, 6, 3, 1, 7, 4, 2, 8, 5>>,
            <<0, 7, 5, 4, 2, 6, 8, 3, 1>>,
            <<0, 8, 4, 7, 3, 2, 5, 1, 6>> >>]

InvTab ==
  [GF4 |-> <<0, 1, 3, 2>>,
   GF8 |-> <<0, 1, 5, 6, 7, 2, 3, 4>>,
   GF9 |-> <<0, 1, 2, 6, 5, 4, 3, 8, 7>>]

FrobTab ==
  [GF4 |-> <<0, 1, 3, 2>>,
   GF8 |-> <<0, 1, 4, 5, 6, 7, 2, 3>>,
   GF9 |-> <<0, 1, 2, 6, 7, 8, 3, 4, 5>>]

Elts(K) == 0 .. (Len(InvTab[K]) - 1)
add(K, x, y) == AddTab[K][x + 1][y + 1]
sub(K, x, y) == SubTab[K][x + 1][y + 1]
mul(K, x, y) == MulTab[K][x + 1][y + 1]
\* ~x (x nonzero)
inv(K, x) == InvTab[K][x + 1]
\* sigma, the generator of the twist: the Frobenius endomorphism x |-> x^p
sigma(K, x) == FrobTab[K][x + 1]

RECURSIVE SigmaPow(_, _, _)
SigmaPow(K, i, x) == IF i = 0 THEN x ELSE sigma(K, SigmaPow(K, i - 1, x))

\* parent._order: the order of sigma, the least r > 0 with sigma^r = identity
Order == [GF4 |-> 2, GF8 |-> 3, GF9 |-> 2]

\* parent.twist_map(i): sigma^i, for any integer i (negative i is the inverse)
twist_map(K, i, x) == SigmaPow(K, i % Order[K], x)

\* the tables are those of GF(p^n), and Order is the order of sigma
TablesComputed ==
  \A K \in Rings :
    /\ AddTab[K] = Table(RawAdd, RingDef[K], 0, Card(RingDef[K]))
    /\ SubTab[K] = Table(RawSub, RingDef[K], 0, Card(RingDef[K]))
    /\ MulTab[K] = Table(RawMul0, RingDef[K], 0, Card(RingDef[K]))
    /\ InvTab[K] = Row(RawInv, RingDef[K], 0, 0, Card(RingDef[K]))
    /\ FrobTab[K] = Row(RawFrob, RingDef[K], 0, 0, Card(RingDef[K]))
    /\ \A x \in Elts(K) : SigmaPow(K, Order[K], x) = x
    /\ \A r \in 1 .. (Order[K] - 1) : \E x \in Elts(K) : SigmaPow(K, r, x) # x

-----------------------------------------------------------------------------
(* Coefficient lists.                                                      *)

\* the normalized coefficient lists of length at most n: empty, or last entry nonzero
Polys(K, n) ==
  {c \in UNION {[1 .. l -> Elts(K)] : l \in 0 .. n} : c = << >> \/ c[Len(c)] # 0}

RECURSIVE __normalize(_)
\* strip the trailing zero coefficients
__normalize(x) ==
  IF Len(x) > 0 /\ x[Len(x)] = 0 THEN __normalize(SubSeq(x, 1, Len(x) - 1)) ELSE x

\* len(a) - 1
degree(a) == Len(a) - 1

Min(m, n) == IF m < n THEN m ELSE n

\* [ parent.twist_map()(x) for x in l ]
TwistList(K, l) == SubSeq([k \in 1 .. Len(l) |-> sigma(K, l[k])], 1, Len(l))

-----------------------------------------------------------------------------
(* The object store: M = [heap, polys].  heap[l] is the content of list    *)
(* object l; polys[o] is the polynomial object o.                          *)

Coeffs(M, o) == M.heap[M.polys[o].coeffs]

\* a new list object holding v; its reference is Len(heap) + 1
AllocList(M, v) == [M EXCEPT !.heap = Append(@, v)]

SetList(M, l, v) == [M EXCEPT !.heap[l] = v]

\* _new_c(coeffs, parent): a new polynomial object on the list object l, its
\* conjugate cache initialised to [ _coeffs ]
_new_c(M, l) == [M EXCEPT !.polys = Append(@, [coeffs |-> l, conjugates |-> << l >>])]

\* the reference of the object the last _new_c made
Newest(M) == Len(M.polys)

\* CopyPoly without the copy: self._new_c(o._coeffs, parent)
CopyPoly_alias(M, o) == _new_c(M, M.polys[o].coeffs)

\* self._new_c(o._coeffs[:], parent): a new object on a copy of o's list
CopyPoly(M, o) ==
  LET M1 == AllocList(M, Coeffs(M, o)) IN _new_c(M1, Len(M1.heap))

\* Raise with the exception dropped: the routine just returns
Raise_ignored(M, e) == [heap |-> M.heap, polys |-> M.polys, raised |-> "", value |-> 0]

\* the outcome of a routine: the store it leaves, the exception it raised ("":
\* none) and the value it returned.  A routine that raises stops there.
Return(M, v) == [heap |-> M.heap, polys |-> M.polys, raised |-> "", value |-> v]
Raise(M, e)  == [heap |-> M.heap, polys |-> M.polys, raised |-> e, value |-> 0]

-----------------------------------------------------------------------------
(* Left division.                                                          *)

RECURSIVE lrem_loop(_, _, _, _, _)
\* for i from da-db >= i >= 0: c = twist_map(-db)(inv*a[i+db]);
\*   for j from 0 <= j < db: a[i+j] -= b[j] * twist_map(j)(c)
lrem_loop(K, a, b, inv_b, i) ==
  IF i < 0 THEN a
  ELSE LET db == degree(b)
           c  == twist_map(K, -db, mul(K, inv_b, a[i + db + 1]))
           a1 == SubSeq([k \in 1 .. Len(a) |->
                           IF i <= k - 1 /\ k - 1 < i + db
                           THEN sub(K, a[k], mul(K, b[k - i], twist_map(K, k - 1 - i, c)))
                           ELSE a[k]], 1, Len(a))
       IN  lrem_loop(K, a1, b, inv_b, i - 1)

\* _inplace_lrem without its last statement, self.__normalize()
_inplace_lrem_unnormalized(K, M, s, o) ==
  LET a  == Coeffs(M, s)
      b  == Coeffs(M, o)
      da == degree(a)
      db == degree(b)
  IN  IF db < 0 THEN Raise(M, "ZeroDivisionError")
      ELSE IF da >= db
      THEN LET a1 == lrem_loop(K, a, b, inv(K, b[db + 1]), da - db)
           IN  Return(SetList(M, M.polys[s].coeffs, SubSeq(a1, 1, db)), 0)
      ELSE Return(M, 0)

\* self._inplace_lrem(other)
_inplace_lrem(K, M, s, o) ==
  LET a  == Coeffs(M, s)
      b  == Coeffs(M, o)
      da == degree(a)
      db == degree(b)
  IN  IF db < 0 THEN Raise(M, "ZeroDivisionError")
      ELSE IF da >= db
      THEN LET a1 == lrem_loop(K, a, b, inv(K, b[db + 1]), da - db)
           IN  Return(SetList(M, M.polys[s].coeffs, __normalize(SubSeq(a1, 1, db))), 0)
      ELSE Return(M, 0)

RECURSIVE lfloordiv_loop_untwisted(_, _, _, _, _)
\* lfloordiv_loop with c = inv*a[i+db], the twist by sigma^(-db) left out
lfloordiv_loop_untwisted(K, a, b, inv_b, i) ==
  IF i < 0 THEN a
  ELSE LET db  == degree(b)
           c   == mul(K, inv_b, a[i + db + 1])
           deb == IF i < db THEN db ELSE i
           a1  == SubSeq([k \in 1 .. Len(a) |->
                            IF k - 1 = i + db THEN c
                            ELSE IF deb <= k - 1 /\ k - 1 < db + i
                            THEN sub(K, a[k], mul(K, b[k - i], twist_map(K, k - 1 - i, c)))
                            ELSE a[k]], 1, Len(a))
       IN  lfloordiv_loop_untwisted(K, a1, b, inv_b, i - 1)

RECURSIVE lfloordiv_loop(_, _, _, _, _)
\* for i from da-db >= i >= 0: c = a[i+db] = twist_map(-db)(inv*a[i+db]);
\*   deb = db if i < db else i
\*   for j from deb <= j < db+i: a[j] -= b[j-i] * twist_map(j-i)(c)
lfloordiv_loop(K, a, b, inv_b, i) ==
  IF i < 0 THEN a
  ELSE LET db  == degree(b)
           c   == twist_map(K, -db, mul(K, inv_b, a[i + db + 1]))
           deb == IF i < db THEN db ELSE i
           a1  == SubSeq([k \in 1 .. Len(a) |->
                            IF k - 1 = i + db THEN c
                            ELSE IF deb <= k - 1 /\ k - 1 < db + i
                            THEN sub(K, a[k], mul(K, b[k - i], twist_map(K, k - 1 - i, c)))
                            ELSE a[k]], 1, Len(a))
       IN  lfloordiv_loop(K, a1, b, inv_b, i - 1)

\* self._inplace_lfloordiv(other)
_inplace_lfloordiv(K, M, s, o) ==
  LET a  == Coeffs(M, s)
      b  == Coeffs(M, o)
      da == degree(a)
      db == degree(b)
  IN  IF db < 0 THEN Raise(M, "ZeroDivisionError")
      ELSE IF da < db
      THEN LET M1 == AllocList(M, << >>)
           IN  Return([M1 EXCEPT !.polys[s].coeffs = Len(M1.heap)], 0)
      ELSE LET a1 == lfloordiv_loop(K, a, b, inv(K, b[db + 1]), da - db)
           IN  Return(SetList(M, M.polys[s].coeffs,
                              __normalize(SubSeq(a1, db + 1, Len(a1)))), 0)

-----------------------------------------------------------------------------
(* Right division, with the tables twinv and twb (other._conjugates).      *)

RECURSIVE twinv_list_untwisted(_, _, _)
\* twinv_list with twinv.append(twinv[i]): the inverse is never twisted
twinv_list_untwisted(K, tw, lim) ==
  IF Len(tw) - 1 < lim THEN twinv_list_untwisted(K, Append(tw, tw[Len(tw)]), lim) ELSE tw

RECURSIVE twinv_list(_, _, _)
\* twinv = [ inv ]; for i from 0 <= i < lim: twinv.append(twist_map()(twinv[i]))
twinv_list(K, tw, lim) ==
  IF Len(tw) - 1 < lim THEN twinv_list(K, Append(tw, sigma(K, tw[Len(tw)])), lim) ELSE tw

RECURSIVE extend_conjugates(_, _, _, _)
\* twb = other._conjugates
\* for i from len(twb)-1 <= i < lim: twb.append([ twist_map()(x) for x in twb[i] ])
extend_conjugates(K, M, o, lim) ==
  LET twb == M.polys[o].conjugates
  IN  IF Len(twb) - 1 < lim
      THEN LET M1 == AllocList(M, TwistList(K, M.heap[twb[Len(twb)]]))
           IN  extend_conjugates(K, [M1 EXCEPT !.polys[o].conjugates = Append(@, Len(M1.heap))],
                                 o, lim)
      ELSE M

\* the lists other._conjugates holds
Conjugates(M, o) ==
  [k \in 1 .. Len(M.polys[o].conjugates) |-> M.heap[M.polys[o].conjugates[k]]]

RECURSIVE rrem_loop(_, _, _, _, _, _)
\* for i from da-db >= i >= 0: c = twinv[i%order] * a[i+db];
\*   for j from 0 <= j < db: a[i+j] -= c * twb[i%order][j]
rrem_loop(K, a, db, twinv, twb, i) ==
  IF i < 0 THEN a
  ELSE LET m  == (i % Order[K]) + 1
           c  == mul(K, twinv[m], a[i + db + 1])
           a1 == SubSeq([k \in 1 .. Len(a) |->
                           IF i <= k - 1 /\ k - 1 < i + db
                           THEN sub(K, a[k], mul(K, c, twb[m][k - i]))
                           ELSE a[k]], 1, Len(a))
       IN  rrem_loop(K, a1, db, twinv, twb, i - 1)

\* _inplace_rrem with del a[db+1:] for del a[db:]
_inplace_rrem_keep(K, M, s, o) ==
  LET a  == Coeffs(M, s)
      b  == Coeffs(M, o)
      da == degree(a)
      db == degree(b)
  IN  IF db < 0 THEN Raise(M, "ZeroDivisionError")
      ELSE IF da >= db
      THEN LET lim   == Min(da - db, Order[K] - 1)
               twinv == twinv_list(K, << inv(K, b[db + 1]) >>, lim)
               M1    == extend_conjugates(K, M, o, lim)
               a1    == rrem_loop(K, a, db, twinv, Conjugates(M1, o), da - db)
           IN  Return(SetList(M1, M.polys[s].coeffs, __normalize(SubSeq(a1, 1, db + 1))), 0)
      ELSE Return(M, 0)

\* self._inplace_rrem(other)
_inplace_rrem(K, M, s, o) ==
  LET a  == Coeffs(M, s)
      b  == Coeffs(M, o)
      da == degree(a)
      db == degree(b)
  IN  IF db < 0 THEN Raise(M, "ZeroDivisionError")
      ELSE IF da >= db
      THEN LET lim   == Min(da - db, Order[K] - 1)
               twinv == twinv_list(K, << inv(K, b[db + 1]) >>, lim)
               M1    == extend_conjugates(K, M, o, lim)
               a1    == rrem_loop(K, a, db, twinv, Conjugates(M1, o), da - db)
           IN  Return(SetList(M1, M.polys[s].coeffs, __normalize(SubSeq(a1, 1, db))), 0)
      ELSE Return(M, 0)

RECURSIVE rfloordiv_loop(_, _, _, _, _, _)
\* for i from da-db >= i >= 0: c = a[i+db] = twinv[i%order] * a[i+db];
\*   deb = db if i < db else i
\*   for j from deb <= j < db+i: a[j] -= c * twb[i%order][j-i]
rfloordiv_loop(K, a, db, twinv, twb, i) ==
  IF i < 0 THEN a
  ELSE LET m   == (i % Order[K]) + 1
           c   == mul(K, twinv[m], a[i + db + 1])
           deb == IF i < db THEN db ELSE i
           a1  == SubSeq([k \in 1 .. Len(a) |->
                            IF k - 1 = i + db THEN c
                            ELSE IF deb <= k - 1 /\ k - 1 < db + i
                            THEN sub(K, a[k], mul(K, c, twb[m][k - i]))
                            ELSE a[k]], 1, Len(a))
       IN  rfloordiv_loop(K, a1, db, twinv, twb, i - 1)

\* self._inplace_rfloordiv(other)
_inplace_rfloordiv(K, M, s, o) ==
  LET a  == Coeffs(M, s)
      b  == Coeffs(M, o)
      da == degree(a)
      db == degree(b)
  IN  IF db < 0 THEN Raise(M, "ZeroDivisionError")
      ELSE IF da < db
      THEN LET M1 == AllocList(M, << >>)
           IN  Return([M1 EXCEPT !.polys[s].coeffs = Len(M1.heap)], 0)
      ELSE LET lim   == Min(da - db, Order[K] - 1)
               twinv == twinv_list(K, << inv(K, b[db + 1]) >>, lim)
               M1    == extend_conjugates(K, M, o, lim)
               a1    == rfloordiv_loop(K, a, db, twinv, Conjugates(M1, o), da - db)
           IN  Return(SetList(M1, M.polys[s].coeffs,
                              __normalize(SubSeq(a1, db + 1, Len(a1)))), 0)

RECURSIVE reverse(_)
\* q.reverse()
reverse(q) == IF q = << >> THEN << >> ELSE Append(reverse(Tail(q)), Head(q))

RECURSIVE rquo_loop(_, _, _, _, _, _)
\* for i from da-db >= i >= 0: c = twist_map(i)(inv) * a[i+db]; q.append(c)
\*   for j from 0 <= j < db: a[i+j] -= c * twist_map(i)(b[j])
\* the pair << a, q >> when the loop ends
rquo_loop(K, a, b, inv_b, q, i) ==
  IF i < 0 THEN << a, q >>
  ELSE LET db == degree(b)
           c  == mul(K, twist_map(K, i, inv_b), a[i + db + 1])
           a1 == SubSeq([k \in 1 .. Len(a) |->
                           IF i <= k - 1 /\ k - 1 < i + db
                           THEN sub(K, a[k], mul(K, c, twist_map(K, i, b[k - i])))
                           ELSE a[k]], 1, Len(a))
       IN  rquo_loop(K, a1, b, inv_b, Append(q, c), i - 1)

\* self._rquo_inplace_rem(other): the value returned is the quotient object
_rquo_inplace_rem(K, M, s, o) ==
  LET a  == Coeffs(M, s)
      b  == Coeffs(M, o)
      da == degree(a)
      db == degree(b)
  IN  IF db < 0 THEN Raise(M, "ZeroDivisionError")
      ELSE IF da < db
      THEN LET M1 == AllocList(M, << >>)
               M2 == _new_c(M1, Len(M1.heap))
           IN  Return(M2, Newest(M2))
      ELSE LET aq == rquo_loop(K, a, b, inv(K, b[db + 1]), << >>, da - db)
               M1 == SetList(M, M.polys[s].coeffs, __normalize(SubSeq(aq[1], 1, db)))
               M2 == AllocList(M1, reverse(aq[2]))
               M3 == _new_c(M2, Len(M2.heap))
           IN  Return(M3, Newest(M3))

-----------------------------------------------------------------------------
(* The ring structure of S, from the rule X * a = sigma(a) * X.            *)

RECURSIVE FSum(_, _, _)
\* the sum of f[1], .., f[n] in k
FSum(K, f, n) == IF n = 0 THEN 0 ELSE add(K, FSum(K, f, n - 1), f[n])

Coef(a, i) == IF i < Len(a) THEN a[i + 1] ELSE 0

\* a + b
PolyAdd(K, a, b) ==
  LET n == IF Len(a) > Len(b) THEN Len(a) ELSE Len(b)
  IN  __normalize(SubSeq([k \in 1 .. n |-> add(K, Coef(a, k - 1), Coef(b, k - 1))], 1, n))

\* a * b: (a_i X^i) * (b_j X^j) = a_i sigma^i(b_j) X^(i+j)
SkewMul(K, a, b) ==
  IF a = << >> \/ b = << >> THEN << >>
  ELSE LET n == Len(a) + Len(b) - 1
       IN  __normalize(SubSeq(
             [k \in 1 .. n |->
                FSum(K, [i \in 1 .. Len(a) |->
                           IF k - i >= 0 /\ k - i < Len(b)
                           THEN mul(K, a[i], twist_map(K, i - 1, b[k - i + 1]))
                           ELSE 0], Len(a))], 1, n))

\* a store holding a and b only, each with a new conjugate cache
Scratch(a, b) ==
  [heap  |-> << a, b >>,
   polys |-> << [coeffs |-> 1, conjugates |-> << 1 >>],
                [coeffs |-> 2, conjugates |-> << 2 >>] >>]

\* a.left_quo_rem(b)[1] and a.right_quo_rem(b)[1] as coefficient lists (b nonzero)
left_rem(K, a, b)  == Coeffs(_inplace_lrem(K, Scratch(a, b), 1, 2), 1)
right_rem(K, a, b) == Coeffs(_inplace_rrem(K, Scratch(a, b), 1, 2), 1)

-----------------------------------------------------------------------------
(* Division runs: the user holds self and other; every in-place routine is *)
(* applied to a temporary made by copying self, as its callers do.         *)

LenA(K) == IF Len(InvTab[K]) > 4 THEN MaxLenA - 1 ELSE MaxLenA
LenB(K) == IF Len(InvTab[K]) > 4 THEN MaxLenB - 1 ELSE MaxLenB

\* the routines of one side, in the order in which a run may apply them
LeftOps  == << "_inplace_lfloordiv", "_inplace_lrem" >>
RightOps == << "_inplace_rfloordiv", "_inplace_rrem", "_rquo_inplace_rem" >>

Rank(ops, name) == CHOOSE r \in 1 .. Len(ops) : ops[r] = name

\* name may be applied next: nothing of the other side and nothing later on its side was
MayCall(ops, name) == \A d \in DOMAIN res : \E r \in 1 .. (Rank(ops, name) - 1) : ops[r] = d

Store == [heap |-> heap, polys |-> polys]

InitDiv ==
  /\ parent \in Rings
  /\ \E a \in Polys(parent, LenA(parent)), b \in Polys(parent, LenB(parent)) :
       /\ heap = << a, b >>
       /\ polys = << [coeffs |-> 1, conjugates |-> << 1 >>],
                     [coeffs |-> 2, conjugates |-> << 2 >>] >>
  /\ self = 1
  /\ other = 2
  /\ exp = 0
  /\ call = "init"
  /\ ret = [raised |-> "", value |-> 0]
  /\ res = << >>
  /\ A = 0
  /\ B = 0
  /\ pc = "idle"
  /\ passes = 0

\* tmp = copy of self; tmp.<name>(other); res[name] remembers tmp
DivCall(ops, name, R) ==
  /\ pc = "idle"
  /\ heap' = R.heap
  /\ polys' = R.polys
  /\ call' = name
  /\ ret' = [raised |-> R.raised, value |-> R.value]
  /\ res' = res @@ (name :> [tmp |-> Len(polys) + 1, raised |-> R.raised, value |-> R.value])
  /\ UNCHANGED <<parent, self, other, exp, A, B, pc, passes>>

Call_inplace_lfloordiv ==
  /\ MayCall(LeftOps, "_inplace_lfloordiv")
  /\ LET M == CopyPoly(Store, self)
     IN  DivCall(LeftOps, "_inplace_lfloordiv", _inplace_lfloordiv(parent, M, Newest(M), other))

Call_inplace_lrem ==
  /\ MayCall(LeftOps, "_inplace_lrem")
  /\ LET M == CopyPoly(Store, self)
     IN  DivCall(LeftOps, "_inplace_lrem", _inplace_lrem(parent, M, Newest(M), other))

Call_inplace_rfloordiv ==
  /\ MayCall(RightOps, "_inplace_rfloordiv")
  /\ LET M == CopyPoly(Store, self)
     IN  DivCall(RightOps, "_inplace_rfloordiv", _inplace_rfloordiv(parent, M, Newest(M), other))

Call_inplace_rrem ==
  /\ MayCall(RightOps, "_inplace_rrem")
  /\ LET M == CopyPoly(Store, self)
     IN  DivCall(RightOps, "_inplace_rrem", _inplace_rrem(parent, M, Newest(M), other))

Call_rquo_inplace_rem ==
  /\ MayCall(RightOps, "_rquo_inplace_rem")
  /\ LET M == CopyPoly(Store, self)
     IN  DivCall(RightOps, "_rquo_inplace_rem", _rquo_inplace_rem(parent, M, Newest(M), other))

NextDiv ==
  \/ Call_inplace_lfloordiv
  \/ Call_inplace_lrem
  \/ Call_inplace_rfloordiv
  \/ Call_inplace_rrem
  \/ Call_rquo_inplace_rem

SpecDiv == InitDiv /\ [][NextDiv]_vars

-----------------------------------------------------------------------------
(* Properties of the division runs.  In a run self holds the dividend a,   *)
(* other the divisor b, and res[name].tmp the temporary name was applied   *)
(* to.                                                                     *)

Applied(name) == name \in DOMAIN res

\* the coefficient list left in the temporary of routine name
Left(name) == Coeffs(Store, res[name].tmp)

Normalized(x) == x = << >> \/ x[Len(x)] # 0

\* C1: with a nonzero divisor b, the polynomial _inplace_lrem leaves in the
\* dividend and the polynomial _inplace_rrem leaves in it have degree less
\* than deg(b), whether deg(a) >= deg(b) or deg(a) < deg(b).
C1_RemainderDegree ==
  \A name \in {"_inplace_lrem", "_inplace_rrem"} :
    Applied(name) /\ Coeffs(Store, other) # << >>
      => degree(Left(name)) < degree(Coeffs(Store, other))

\* _inplace_rrem has run against a divisor of degree >= 1 whose cache was
\* [ b._coeffs ], with a degree gap of at least the order of sigma, and has
\* left a nonzero remainder
C1_Reached ==
  /\ DOMAIN res = {"_inplace_rrem"}
  /\ degree(Coeffs(Store, other)) >= 1
  /\ degree(Coeffs(Store, self)) - degree(Coeffs(Store, other)) >= Order[parent]
  /\ Left("_inplace_rrem") # << >>

\* C3: with a nonzero divisor b, q the result of _inplace_rfloordiv and r the
\* result of _inplace_rrem, each on a copy of a: a = q*b + r in the skew
\* ring, for every degree gap; _rquo_inplace_rem returns the same q and
\* leaves the same r.
C3_RightDivision ==
  Coeffs(Store, other) # << >> =>
    /\ Applied("_inplace_rfloordiv") /\ Applied("_inplace_rrem")
         => PolyAdd(parent, SkewMul(parent, Left("_inplace_rfloordiv"), Coeffs(Store, other)),
                    Left("_inplace_rrem")) = Coeffs(Store, self)
    /\ Applied("_rquo_inplace_rem") /\ Applied("_inplace_rfloordiv")
         => Coeffs(Store, res["_rquo_inplace_rem"].value) = Left("_inplace_rfloordiv")
    /\ Applied("_rquo_inplace_rem") /\ Applied("_inplace_rrem")
         => Left("_rquo_inplace_rem") = Left("_inplace_rrem")

\* the three right routines have run, the degree gap is at least the order
\* of sigma, the divisor is not constant and its leading coefficient is
\* moved by sigma, and the remainder is not zero
C3_Reached ==
  /\ DOMAIN res = {"_inplace_rfloordiv", "_inplace_rrem", "_rquo_inplace_rem"}
  /\ degree(Coeffs(Store, other)) >= 1
  /\ degree(Coeffs(Store, self)) - degree(Coeffs(Store, other)) >= Order[parent]
  /\ sigma(parent, Coeffs(Store, other)[Len(Coeffs(Store, other))])
       # Coeffs(Store, other)[Len(Coeffs(Store, other))]
  /\ Left("_inplace_rrem") # << >>

\* C4: with a nonzero divisor b, q the result of _inplace_lfloordiv and r the
\* result of _inplace_lrem, each on a copy of a: a = b*q + r in the skew
\* ring; when deg(a) < deg(b), q is zero and r is a.
C4_LeftDivision ==
  Applied("_inplace_lfloordiv") /\ Applied("_inplace_lrem") /\ Coeffs(Store, other) # << >> =>
    /\ PolyAdd(parent, SkewMul(parent, Coeffs(Store, other), Left("_inplace_lfloordiv")),
               Left("_inplace_lrem")) = Coeffs(Store, self)
    /\ degree(Coeffs(Store, self)) < degree(Coeffs(Store, other))
         => Left("_inplace_lfloordiv") = << >> /\ Left("_inplace_lrem") = Coeffs(Store, self)

\* both left routines have run against a divisor of odd degree, the quotient
\* has two terms at least, one of them moved by sigma, and the remainder is
\* not zero
C4_Reached ==
  /\ DOMAIN res = {"_inplace_lfloordiv", "_inplace_lrem"}
  /\ degree(Coeffs(Store, other)) % 2 = 1
  /\ degree(Left("_inplace_lfloordiv")) >= 1
  /\ \E k \in DOMAIN Left("_inplace_lfloordiv") :
       sigma(parent, Left("_inplace_lfloordiv")[k]) # Left("_inplace_lfloordiv")[k]
  /\ Left("_inplace_lrem") # << >>

\* the four in-place variants C10 is about
InPlaceVariants ==
  {"_inplace_lrem", "_inplace_rrem", "_inplace_lfloordiv", "_inplace_rfloordiv"}

\* C10: a call of one of the four in-place variants with a nonzero divisor
\* leaves the divisor's coefficient list as it was, and leaves a normalized
\* coefficient list in the dividend.
C10_DivisorKept ==
  [][call' \in InPlaceVariants /\ Coeffs(Store, other) # << >>
       => /\ Coeffs(Store, other)' = Coeffs(Store, other)
          /\ Normalized(Left(call))']_vars

\* _inplace_rfloordiv has made the divisor's cache grow, and _inplace_rrem
\* has left a nonzero remainder shorter than deg(b): zeros were stripped
C10_Reached ==
  /\ DOMAIN res = {"_inplace_rfloordiv", "_inplace_rrem"}
  /\ Len(polys[other].conjugates) > 1
  /\ Left("_inplace_rrem") # << >>
  /\ Len(Left("_inplace_rrem")) < degree(Coeffs(Store, other))

-----------------------------------------------------------------------------
(* Right gcd.  A and B are the local variables of the running routine; one *)
(* step is one pass through the while loop, and passes counts the passes   *)
(* made since the call.                                                    *)

\* _rgcd(self, other), up to the loop
Call_rgcd ==
  /\ pc = "idle" /\ call = "init"
  /\ call' = "_rgcd"
  /\ IF Len(Coeffs(Store, other)) # 0
     THEN LET M1 == CopyPoly(Store, self)
              M2 == CopyPoly(M1, other)
          IN  /\ heap' = M2.heap
              /\ polys' = M2.polys
              /\ A' = Newest(M1)
              /\ B' = Newest(M2)
              /\ pc' = "_rgcd"
              /\ UNCHANGED ret
     ELSE /\ ret' = [raised |-> "", value |-> self]
          /\ pc' = "done"
          /\ UNCHANGED <<heap, polys, A, B>>
  /\ passes' = 0
  /\ UNCHANGED <<parent, self, other, exp, res>>

\* while len(B._coeffs): A._inplace_rrem(B); swap = A; A = B; B = swap
Loop_rgcd ==
  /\ pc = "_rgcd"
  /\ Len(Coeffs(Store, B)) # 0
  /\ LET R == _inplace_rrem(parent, Store, A, B)
     IN  /\ heap' = R.heap
         /\ polys' = R.polys
         /\ IF R.raised = ""
            THEN A' = B /\ B' = A /\ UNCHANGED <<pc, ret>>
            ELSE /\ ret' = [raised |-> R.raised, value |-> 0]
                 /\ pc' = "done"
                 /\ UNCHANGED <<A, B>>
  /\ passes' = passes + 1
  /\ UNCHANGED <<parent, self, other, exp, call, res>>

\* return A
Return_rgcd ==
  /\ pc = "_rgcd"
  /\ Len(Coeffs(Store, B)) = 0
  /\ ret' = [raised |-> "", value |-> A]
  /\ pc' = "done"
  /\ UNCHANGED <<parent, heap, polys, self, other, exp, call, res, A, B, passes>>

\* tmp = copy of self; tmp._inplace_rgcd(other), up to the loop.  A is tmp.
Call_inplace_rgcd ==
  /\ pc = "idle" /\ call = "init"
  /\ call' = "_inplace_rgcd"
  /\ LET M1 == CopyPoly(Store, self)
     IN  IF Len(Coeffs(Store, other)) # 0
         THEN LET M2 == CopyPoly(M1, other)
              IN  /\ heap' = M2.heap
                  /\ polys' = M2.polys
                  /\ A' = Newest(M1)
                  /\ B' = Newest(M2)
                  /\ pc' = "_inplace_rgcd"
                  /\ UNCHANGED ret
         ELSE /\ heap' = M1.heap
              /\ polys' = M1.polys
              /\ A' = Newest(M1)
              /\ ret' = [raised |-> "", value |-> 0]
              /\ pc' = "done"
              /\ UNCHANGED B
  /\ passes' = 0
  /\ UNCHANGED <<parent, self, other, exp, res>>

\* B._conjugates = [ B._coeffs ]
reset_conjugates(M, o) == [M EXCEPT !.polys[o].conjugates = << M.polys[o].coeffs >>]

\* swap_coeffs without its last assignment, B._coeffs = swap
swap_coeffs_half(M, s, o) == [M EXCEPT !.polys[s].coeffs = M.polys[o].coeffs]

\* swap = self._coeffs; self._coeffs = B._coeffs; B._coeffs = swap
swap_coeffs(M, s, o) ==
  [M EXCEPT !.polys[s].coeffs = M.polys[o].coeffs, !.polys[o].coeffs = M.polys[s].coeffs]

\* while len(B._coeffs): B._conjugates = [ B._coeffs ]; self._inplace_rrem(B); swap
Loop_inplace_rgcd ==
  /\ pc = "_inplace_rgcd"
  /\ Len(Coeffs(Store, B)) # 0
  /\ LET R == _inplace_rrem(parent, reset_conjugates(Store, B), A, B)
     IN  IF R.raised = ""
         THEN LET M == swap_coeffs(R, A, B)
              IN  heap' = M.heap /\ polys' = M.polys /\ UNCHANGED <<pc, ret>>
         ELSE /\ heap' = R.heap
              /\ polys' = R.polys
              /\ ret' = [raised |-> R.raised, value |-> 0]
              /\ pc' = "done"
  /\ passes' = passes + 1
  /\ UNCHANGED <<parent, self, other, exp, call, res, A, B>>

Return_inplace_rgcd ==
  /\ pc = "_inplace_rgcd"
  /\ Len(Coeffs(Store, B)) = 0
  /\ ret' = [raised |-> "", value |-> 0]
  /\ pc' = "done"
  /\ UNCHANGED <<parent, heap, polys, self, other, exp, call, res, A, B, passes>>

NextGcd ==
  \/ Call_rgcd
  \/ Loop_rgcd
  \/ Return_rgcd
  \/ Call_inplace_rgcd
  \/ Loop_inplace_rgcd
  \/ Return_inplace_rgcd

\* the monic coefficient lists among ps, and the zero polynomial
Monic(ps) == {c \in ps : c = << >> \/ c[Len(c)] = 1}

InitGcd ==
  /\ parent = "GF4"
  /\ \E a \in Monic(Polys(parent, GcdLenA)), b \in Monic(Polys(parent, GcdLenB)) :
       /\ heap = << a, b >>
       /\ polys = << [coeffs |-> 1, conjugates |-> << 1 >>],
                     [coeffs |-> 2, conjugates |-> << 2 >>] >>
  /\ self = 1
  /\ other = 2
  /\ exp = 0
  /\ call = "init"
  /\ ret = [raised |-> "", value |-> 0]
  /\ res = << >>
  /\ A = 0
  /\ B = 0
  /\ pc = "idle"
  /\ passes = 0

SpecGcd == InitGcd /\ [][NextGcd]_vars

\* a step of a routine that is in its loop: one more pass, or the return
RunGcd ==
  /\ pc \in {"_rgcd", "_inplace_rgcd"}
  /\ pc' \in {pc, "done"}
  /\ passes' \in {passes, passes + 1}
  /\ <<pc, passes>>' # <<pc, passes>>

\* a routine that was called is not suspended for ever: while it is in its loop
\* it goes on to its next step.  In every state with pc in the loop one of
\* Loop_rgcd / Return_rgcd (Loop_inplace_rgcd / Return_inplace_rgcd) can be
\* taken, its guard being len(B._coeffs) # 0 or its negation, and each is a
\* RunGcd step.
SpecGcdLive == SpecGcd /\ WF_<<pc, passes>>(RunGcd)

-----------------------------------------------------------------------------
(* Properties of the right gcd.                                            *)

\* C5: for a and b not both zero, the polynomial _rgcd(a, b) returns is not
\* zero and divides a and b on the right: both right remainders are zero.
C5_GcdDivides ==
  pc = "done" /\ call = "_rgcd"
    /\ (Coeffs(Store, self) # << >> \/ Coeffs(Store, other) # << >>)
    => /\ ret.raised = ""
       /\ Coeffs(Store, ret.value) # << >>
       /\ right_rem(parent, Coeffs(Store, self), Coeffs(Store, ret.value)) = << >>
       /\ right_rem(parent, Coeffs(Store, other), Coeffs(Store, ret.value)) = << >>

\* the indices i of the entries of o._conjugates, as they are when
\* s._inplace_rrem(o) starts, that the call reads: twb[i%order] in the inner
\* loop, and the last entry when the table is extended
ReadEntries(K, M, s, o) ==
  LET da  == degree(Coeffs(M, s))
      db  == degree(Coeffs(M, o))
      lim == Min(da - db, Order[K] - 1)
      n   == Len(M.polys[o].conjugates)
  IN  IF db < 0 \/ da < db THEN {}
      ELSE {i \in 0 .. (n - 1) : (db >= 1 /\ i <= lim) \/ (i = n - 1 /\ i < lim)}

\* o._conjugates[i] is o's coefficient list with sigma^i applied to each entry
ValidEntry(K, M, o, i) ==
  M.heap[M.polys[o].conjugates[i + 1]]
    = [k \in 1 .. Len(Coeffs(M, o)) |-> SigmaPow(K, i, Coeffs(M, o)[k])]

\* C9: at every right-remainder step of _rgcd and of _inplace_rgcd, every
\* entry conjugates[i] of the divisor that _inplace_rrem reads is the
\* divisor's current coefficient list with sigma^i applied to each entry.
C9_ConjugatesValid ==
  /\ pc = "_rgcd" /\ Coeffs(Store, B) # << >>
       => \A i \in ReadEntries(parent, Store, A, B) : ValidEntry(parent, Store, B, i)
  /\ pc = "_inplace_rgcd" /\ Coeffs(Store, B) # << >>
       => \A i \in ReadEntries(parent, reset_conjugates(Store, B), A, B) :
            ValidEntry(parent, reset_conjugates(Store, B), B, i)

\* C11: the loops of _rgcd and _inplace_rgcd terminate: every pass makes the
\* degree of the divisor B strictly smaller, also when deg(A) < deg(B) and
\* whatever the conjugate table holds; at most deg(other) + 1 passes are
\* made, none divides by zero, and the routine returns.
C11_GcdTerminates ==
  /\ [][passes' = passes + 1
          => degree(Coeffs(Store, B))' < degree(Coeffs(Store, B))]_vars
  /\ [](passes <= degree(Coeffs(Store, other)) + 1)
  /\ [](ret.raised = "")
  /\ (pc \in {"_rgcd", "_inplace_rgcd"} ~> pc = "done")

\* _rgcd has returned after three passes at least, the first with
\* deg(A) < deg(B), and a table entry that is not the conjugate of the
\* coefficients it belongs to is still held
C11_Reached ==
  /\ pc = "done" /\ call = "_rgcd"
  /\ passes >= 3
  /\ degree(Coeffs(Store, self)) < degree(Coeffs(Store, other))
  /\ \E o \in {A, B} : \E i \in 0 .. (Len(polys[o].conjugates) - 1) :
       ~ValidEntry(parent, Store, o, i)

-----------------------------------------------------------------------------
(* Powers.  The generic class supplies the quotient-and-remainder methods, *)
(* the in-place powers and the bound of a polynomial.                      *)

\* an optional value: << >> is None (or an exception caught), << v >> is v
None == << >>
Some(v) == << v >>

\* reduction modulo mod, or none when mod is None
Reduce(K, a, mod) == IF mod = None THEN a ELSE right_rem(K, a, mod[1])

RECURSIVE pow_even(_, _, _, _)
\* while n & 1 == 0: self = self * self (reduced); n = n >> 1
pow_even(K, a, n, mod) ==
  IF n % 2 = 0 THEN pow_even(K, Reduce(K, SkewMul(K, a, a), mod), n \div 2, mod)
  ELSE << a, n >>

RECURSIVE pow_odd(_, _, _, _, _)
\* while n != 0: selfpow = selfpow * selfpow; if n & 1: self = self * selfpow; n = n >> 1
pow_odd(K, a, selfpow, n, mod) ==
  IF n = 0 THEN a
  ELSE LET sq == Reduce(K, SkewMul(K, selfpow, selfpow), mod)
       IN  pow_odd(K, IF n % 2 = 1 THEN Reduce(K, SkewMul(K, a, sq), mod) ELSE a,
                   sq, n \div 2, mod)

\* r._inplace_pow(n) (mod = None) and r._inplace_pow_mod(n, mod), n >= 1,
\* as the coefficient list left in r
_inplace_pow_mod(K, a, n, mod) ==
  LET e == pow_even(K, a, n, mod) IN pow_odd(K, e[1], e[1], e[2] \div 2, mod)

\* the elements of k fixed by sigma
FixedElts(K) == {x \in Elts(K) : sigma(K, x) = x}

\* the nonzero central polynomials of degree at most order * d: the
\* polynomials in X^order with coefficients fixed by sigma
Central(K, d) ==
  {c \in {__normalize(SubSeq([k \in 1 .. (Order[K] * d + 1) |->
                               IF (k - 1) % Order[K] = 0 THEN f[(k - 1) \div Order[K]] ELSE 0],
                             1, Order[K] * d + 1)) :
            f \in [0 .. d -> FixedElts(K)]} : c # << >>}

\* the central polynomials which m (nonzero) divides on both sides
CentralMultiples(K, m) ==
  {N \in Central(K, degree(m)) : left_rem(K, N, m) = << >> /\ right_rem(K, N, m) = << >>}

\* the outcomes of m.bound(): a central multiple of m of least degree, or
\* NotImplementedError (None)
bound(K, m) ==
  LET cm == CentralMultiples(K, m)
  IN  {Some(N) : N \in {N1 \in cm : \A N2 \in cm : Len(N1) <= Len(N2)}} \cup {None}

\* self.parent()(v): a new polynomial from the coefficient list v
NewPoly(M, v) ==
  LET M1 == AllocList(M, __normalize(v)) IN _new_c(M1, Len(M1.heap))

\* self.parent().gen()
gen == << 0, 1 >>

\* [R.zero()]*exp + [R.one()]
XPow(e) == [k \in 1 .. (e + 1) |-> IF k = e + 1 THEN 1 ELSE 0]

RECURSIVE FPow_zero(_, _, _)
\* FPow with 0**0 = 0
FPow_zero(K, x, e) ==
  IF e = 0 THEN (IF x = 0 THEN 0 ELSE 1) ELSE mul(K, x, FPow_zero(K, x, e - 1))

RECURSIVE FPow(_, _, _)
\* x**e in k; x**0 is 1 for every x
FPow(K, x, e) == IF e = 0 THEN 1 ELSE mul(K, x, FPow(K, x, e - 1))

\* self._leftpow_(exp, modulus), exp >= 0.  m is the modulus object (0: None),
\* bnd the outcome of modulus.bound().
_leftpow_(K, M, s, e, m, bnd) ==
  LET a == Coeffs(M, s)
  IN  IF degree(a) <= 0
      THEN LET M1 == NewPoly(M, << FPow(K, Coef(a, 0), e) >>) IN Return(M1, Newest(M1))
      ELSE IF e = 0
      THEN LET M1 == NewPoly(M, << 1 >>) IN Return(M1, Newest(M1))
      ELSE IF a = gen
      THEN LET M1 == AllocList(M, XPow(e))
               M2 == _new_c(M1, Len(M1.heap))
           IN  IF m # 0 /\ Coeffs(M, m) # << >>
               THEN LET M3 == NewPoly(M2, left_rem(K, XPow(e), Coeffs(M, m)))
                    IN  Return(M3, Newest(M3))
               ELSE Return(M2, Newest(M2))
      ELSE LET mod == IF m = 0 THEN None ELSE bnd
               M1  == IF mod = None THEN M ELSE NewPoly(M, mod[1])
               M2  == CopyPoly(M1, s)
               r   == Newest(M2)
               M3  == SetList(M2, M2.polys[r].coeffs,
                              _inplace_pow_mod(K, Coeffs(M2, r), e,
                                               IF mod # None /\ mod[1] # << >> THEN mod ELSE None))
           IN  IF m # 0 /\ Some(Coeffs(M, m)) # mod
               THEN LET M4 == NewPoly(M3, left_rem(K, Coeffs(M3, r), Coeffs(M, m)))
                    IN  Return(M4, Newest(M4))
               ELSE Return(M3, r)

\* self._rightpow_(exp, modulus), exp >= 0
_rightpow_(K, M, s, e, m, bnd) ==
  LET a == Coeffs(M, s)
  IN  IF degree(a) <= 0
      THEN LET M1 == NewPoly(M, << FPow(K, Coef(a, 0), e) >>) IN Return(M1, Newest(M1))
      ELSE IF e = 0
      THEN LET M1 == NewPoly(M, << 1 >>) IN Return(M1, Newest(M1))
      ELSE IF a = gen
      THEN LET M1 == AllocList(M, XPow(e))
               M2 == _new_c(M1, Len(M1.heap))
           IN  IF m # 0 /\ Coeffs(M, m) # << >>
               THEN LET M3 == NewPoly(M2, right_rem(K, XPow(e), Coeffs(M, m)))
                    IN  Return(M3, Newest(M3))
               ELSE Return(M2, Newest(M2))
      ELSE LET mod == IF m = 0 THEN None ELSE bnd
               M1  == IF mod = None THEN M ELSE NewPoly(M, mod[1])
               M2  == CopyPoly(M1, s)
               r   == Newest(M2)
               M3  == SetList(M2, M2.polys[r].coeffs,
                              _inplace_pow_mod(K, Coeffs(M2, r), e,
                                               IF mod # None /\ mod[1] # << >> THEN mod ELSE None))
           IN  IF m # 0 /\ Some(Coeffs(M, m)) # mod
               THEN LET M4 == NewPoly(M3, right_rem(K, Coeffs(M3, r), Coeffs(M, m)))
                    IN  Return(M4, Newest(M4))
               ELSE Return(M3, r)

\* the moduli a power may be asked with: None (0), or other when it is nonzero
Moduli == {0} \cup (IF Coeffs(Store, other) # << >> THEN {other} ELSE {})

PowCall(name, e, m, bnd, R) ==
  /\ heap' = R.heap
  /\ polys' = R.polys
  /\ exp' = e
  /\ call' = name
  /\ ret' = [raised |-> R.raised, value |-> R.value]
  /\ res' = [modulus |-> m, bound |-> bnd]
  /\ pc' = "done"
  /\ UNCHANGED <<parent, self, other, A, B, passes>>

Call_leftpow_ ==
  /\ pc = "idle" /\ call = "init"
  /\ \E m \in Moduli :
       \E bnd \in (IF m = 0 THEN {None} ELSE bound(parent, Coeffs(Store, m))) :
         \E e \in 0 .. MaxExp :
           PowCall("_leftpow_", e, m, bnd, _leftpow_(parent, Store, self, e, m, bnd))

Call_rightpow_ ==
  /\ pc = "idle" /\ call = "init"
  /\ \E m \in Moduli :
       \E bnd \in (IF m = 0 THEN {None} ELSE bound(parent, Coeffs(Store, m))) :
         \E e \in 0 .. MaxExp :
           PowCall("_rightpow_", e, m, bnd, _rightpow_(parent, Store, self, e, m, bnd))

NextPow ==
  \/ Call_leftpow_
  \/ Call_rightpow_

-----------------------------------------------------------------------------
(* All the routines, on GF(4).                                             *)

Init ==
  /\ parent = "GF4"
  /\ \E a \in Polys(parent, MaxLen), b \in Polys(parent, MaxLen) :
       /\ heap = << a, b >>
       /\ polys = << [coeffs |-> 1, conjugates |-> << 1 >>],
                     [coeffs |-> 2, conjugates |-> << 2 >>] >>
  /\ self = 1
  /\ other = 2
  /\ exp = 0
  /\ call = "init"
  /\ ret = [raised |-> "", value |-> 0]
  /\ res = << >>
  /\ A = 0
  /\ B = 0
  /\ pc = "idle"
  /\ passes = 0

Next ==
  \/ Call_inplace_lfloordiv
  \/ Call_inplace_lrem
  \/ Call_inplace_rfloordiv
  \/ Call_inplace_rrem
  \/ Call_rquo_inplace_rem
  \/ Call_rgcd
  \/ Loop_rgcd
  \/ Return_rgcd
  \/ Call_inplace_rgcd
  \/ Loop_inplace_rgcd
  \/ Return_inplace_rgcd
  \/ Call_leftpow_
  \/ Call_rightpow_

Spec == Init /\ [][Next]_vars

-----------------------------------------------------------------------------
(* Properties of the powers, of the frame and of the zero divisor.         *)

RECURSIVE Power(_, _, _)
\* a^e, the e-fold skew product
Power(K, a, e) == IF e = 0 THEN << 1 >> ELSE SkewMul(K, Power(K, a, e - 1), a)

\* C2: for a of degree >= 0, e >= 0 and a nonzero modulus m, _leftpow_(e, m)
\* is the left remainder of a^e by m and _rightpow_(e, m) is the right
\* remainder of a^e by m, on every path.
C2_PowIsRemainder ==
  call \in {"_leftpow_", "_rightpow_"} /\ res.modulus # 0 /\ degree(Coeffs(Store, self)) >= 0
    => /\ ret.raised = ""
       /\ call = "_leftpow_"
            => Coeffs(Store, ret.value)
                 = left_rem(parent, Power(parent, Coeffs(Store, self), exp), Coeffs(Store, other))
       /\ call = "_rightpow_"
            => Coeffs(Store, ret.value)
                 = right_rem(parent, Power(parent, Coeffs(Store, self), exp), Coeffs(Store, other))

DivisionOps ==
  {"_inplace_lrem", "_inplace_rrem", "_inplace_lfloordiv", "_inplace_rfloordiv",
   "_rquo_inplace_rem"}

\* the object the last routine called was to change
Dividend ==
  IF call \in DivisionOps THEN res[call].tmp ELSE IF call = "_inplace_rgcd" THEN A ELSE self

\* C6 as stated: each of the seven routines, called with the zero polynomial
\* as divisor or second operand, raises ZeroDivisionError and leaves the
\* dividend's coefficient list as it was.
C6_AllRaise ==
  call \in DivisionOps \cup {"_rgcd", "_inplace_rgcd"} /\ Coeffs(Store, other) = << >>
    => /\ ret.raised = "ZeroDivisionError"
       /\ Coeffs(Store, Dividend) = Coeffs(Store, self)

\* C6: each of the five division routines, called with the zero polynomial
\* as divisor, raises ZeroDivisionError and leaves the dividend's coefficient
\* list as it was; _rgcd with a zero second operand raises nothing and
\* returns self, _inplace_rgcd raises nothing and leaves self as it was.
C6_ZeroDivisor ==
  Coeffs(Store, other) = << >> =>
    /\ call \in DivisionOps
         => /\ ret.raised = "ZeroDivisionError"
            /\ Coeffs(Store, Dividend) = Coeffs(Store, self)
    /\ call = "_rgcd" => pc = "done" /\ ret.raised = "" /\ ret.value = self
    /\ call = "_inplace_rgcd"
         => pc = "done" /\ ret.raised = "" /\ Coeffs(Store, Dividend) = Coeffs(Store, self)

\* the three right routines have each been refused a zero divisor, the
\* dividend being the zero polynomial
C6_Reached ==
  /\ DOMAIN res = {"_inplace_rfloordiv", "_inplace_rrem", "_rquo_inplace_rem"}
  /\ Coeffs(Store, other) = << >>
  /\ Coeffs(Store, self) = << >>
  /\ \A name \in DOMAIN res : res[name].raised = "ZeroDivisionError"

C8_OperandsKept ==
  [][call' \in {"_leftpow_", "_rightpow_", "_rgcd"}
       => /\ Coeffs(Store, self)' = Coeffs(Store, self)
          /\ Coeffs(Store, other)' = Coeffs(Store, other)
          /\ pc' = "done" /\ Coeffs(Store, other) = << >> /\ call' = "_rgcd"
               => ret'.value = self]_vars

\* _leftpow_ has squared modulo a central multiple of the modulus and then
\* taken the remainder by the modulus
C8_Reached ==
  /\ call = "_leftpow_"
  /\ exp >= 2
  /\ degree(Coeffs(Store, self)) >= 1
  /\ Coeffs(Store, self) # gen
  /\ res.modulus # 0
  /\ res.bound # None
  /\ res.bound # Some(Coeffs(Store, other))
  /\ Coeffs(Store, ret.value) # Coeffs(Store, self)

====
